---- MODULE Spec2Model ----
(***************************************************************************)
(* Shape inference and forward/backward execution drivers of the linear    *)
(* algebra operators (src/operator/tensor/la_op.h).                        *)
(*                                                                         *)
(* A TShape is a sequence of extents; the empty sequence is a shape that   *)
(* is not known yet (ndim() == 0) and an extent of 0 is a dimension that   *)
(* is not known yet.  Source indices are 0-based: At(s, i) is s[i].        *)
(*                                                                         *)
(* SpecShape runs the three inference functions on the shape slots of one  *)
(* operator node; SpecDrv runs one invocation of LaOpForward or of         *)
(* LaOpBackward, the latter statement by statement.                        *)
(***************************************************************************)
EXTENDS Integers, Sequences, FiniteSets, TLC

\* ------------------------------------------------------------------ bounds
\* Matrix extents are 0..MaxDim (0: not known yet).
MaxDim == 2
\* A shape has at most MaxBatch leading (batch) dimensions.
MaxBatch == 1
\* LaReduceShape<dim> is instantiated for dim in 1..MaxDepth.
MaxDepth == 2
\* An output buffer holds 1..MaxSize elements.
MaxSize == 2
\* Buffer contents are patterns that start at a value in 0..MaxVal.
MaxVal == 1

\* --------------------------------------------------- program constants
\* The largest input and output counts LaOpCaller is specialised for.
MaxInum == 4
MaxOnum == 3

VARIABLES
  \* ---- shape inference (one operator node)
  attrs,       \* the node's parsed parameter block (read-only after construction)
  in_attrs,    \* the node's input shape slots
  out_attrs,   \* the node's output shape slots
  call,        \* the inference function called last ("none" before any call)
  ret,         \* what that call returned: "true", "false" or the error raised
  pre_in,      \* in_attrs as that call found them
  pre_out,     \* out_attrs as that call found them
  computed,    \* the shapes that call computed, each with the slot it is for
  \* ---- one driver invocation
  dir,         \* "forward" (LaOpForward) or "backward" (LaOpBackward)
  inum,        \* template parameter inum
  onum,        \* template parameter onum
  ninputs,     \* inputs.size()
  outputs,     \* the output TBlobs: [dptr_, size, type_flag_]
  req,         \* the write mode of each output
  mem,         \* the buffers, by address
  tspace,      \* LaOpBackward's local copy of outputs
  pc,          \* the statement the invocation is at
  idx,         \* the loop variable i
  err,         \* the fatal error the invocation ended with ("none" otherwise)
  X,           \* the content of each output before the invocation
  Y,           \* what the kernel writes to each output
  log          \* the side effects of the invocation so far, in order

shapeVars == <<attrs, in_attrs, out_attrs, call, ret, pre_in, pre_out, computed>>
drvVars == <<dir, inum, onum, ninputs, outputs, req, mem, tspace, pc, idx, err, X, Y, log>>
vars == <<shapeVars, drvVars>>

\* ------------------------------------------------------------------ shapes
Unknown == <<>>
ndim(s) == Len(s)
At(s, i) == s[i + 1]
Max(a, b) == IF a >= b THEN a ELSE b

\* Checked assignment of shape x to slot y (SHAPE_ASSIGN_CHECK): an unknown
\* slot takes x, unknown dimensions of y are filled from x, and a known
\* dimension of y that differs from a known dimension of x, or a different
\* rank, is a mismatch that leaves the slot as it was.
shape_assign(y, x) ==
  IF ndim(y) = 0 THEN [ok |-> TRUE, shape |-> x]
  ELSE IF ndim(y) # ndim(x) THEN [ok |-> ndim(x) = 0, shape |-> y]
  ELSE IF \E i \in 0..(ndim(y) - 1) : At(y, i) # 0 /\ At(x, i) # 0 /\ At(y, i) # At(x, i)
       THEN [ok |-> FALSE, shape |-> y]
  ELSE [ok |-> TRUE,
        shape |-> [i \in 1..ndim(y) |-> IF y[i] = 0 THEN x[i] ELSE y[i]]]

\* What an inference call hands back: its return value (or the error it
\* raised), the slots as it leaves them, and the shapes it computed.
Outcome(r, ins, outs, comp) == [ret |-> r, in |-> ins, out |-> outs, computed |-> comp]
ForSlot(arr, i, shape) == [arr |-> arr, idx |-> i, shape |-> shape]

\* The loop over the leading dimensions returns false at the first pair
\* that differs.
LeadingNeverDiffer(a, b, n) == FALSE
LeadingDiffer(a, b, n) == \E i \in 0..(n - 3) : At(a, i) # At(b, i)

\* --------------------------------------------- LaMatrixMultMacOpShape
\* The compared dimension of the left operand (first argument of CHECK_EQ).
MultInnerA_Swapped(transpose_a, a, n) == IF transpose_a THEN At(a, n - 1) ELSE At(a, n - 2)
MultInnerA(transpose_a, a, n) == IF transpose_a THEN At(a, n - 2) ELSE At(a, n - 1)
\* The compared dimension of the right operand (second argument of CHECK_EQ).
MultInnerB(transpose_b, b, n) == IF transpose_b THEN At(b, n - 1) ELSE At(b, n - 2)

MultOshape_NoTranspose(transpose_a, transpose_b, a, b, n) ==
  [j \in 1..n |->
     IF j - 1 < n - 2 THEN At(a, j - 1)
     ELSE IF j - 1 = n - 2 THEN At(a, n - 2) ELSE At(b, n - 1)]
MultOshape(transpose_a, transpose_b, a, b, n) ==
  [j \in 1..n |->
     IF j - 1 < n - 2 THEN At(a, j - 1)
     ELSE IF j - 1 = n - 2
          THEN (IF transpose_a THEN At(a, n - 1) ELSE At(a, n - 2))
          ELSE (IF transpose_b THEN At(b, n - 2) ELSE At(b, n - 1))]

\* SHAPE_ASSIGN_CHECK(*out_attrs, 0, tshape), then for a mac the same on
\* (*in_attrs)[2]; the first assignment stays when the second one throws.
MultMacAssign_Unchecked(ins, outs, tshape) ==
  Outcome("true",
          IF Len(ins) > 2 THEN [ins EXCEPT ![3] = tshape] ELSE ins,
          [outs EXCEPT ![1] = tshape],
          {ForSlot("out", 0, tshape)}
            \cup (IF Len(ins) > 2 THEN {ForSlot("in", 2, tshape)} ELSE {}))
MultMacAssign(ins, outs, tshape) ==
  LET r0 == shape_assign(outs[1], tshape)
      comp0 == {ForSlot("out", 0, tshape)}
  IN IF ~r0.ok THEN Outcome("ShapeMismatch", ins, outs, comp0)
     ELSE LET outs1 == [outs EXCEPT ![1] = r0.shape]
          IN IF Len(ins) > 2
             THEN LET r2 == shape_assign(ins[3], tshape)
                      comp2 == comp0 \cup {ForSlot("in", 2, tshape)}
                  IN IF ~r2.ok THEN Outcome("ShapeMismatch", ins, outs1, comp2)
                     ELSE Outcome("true", [ins EXCEPT ![3] = r2.shape], outs1, comp2)
             ELSE Outcome("true", ins, outs1, comp0)

LaMatrixMultMacOpShape(a, ins, outs) ==
  IF Len(ins) < 2 \/ Len(outs) # 1 THEN Outcome("CheckFailed", ins, outs, {})
  ELSE LET n == ndim(ins[1])
       IN IF n >= 2 /\ n = ndim(ins[2])
          THEN IF LeadingDiffer(ins[1], ins[2], n) THEN Outcome("false", ins, outs, {})
               ELSE IF MultInnerA(a.transpose_a, ins[1], n) # MultInnerB(a.transpose_b, ins[2], n)
                    THEN Outcome("ShapeMismatch", ins, outs, {})
               ELSE MultMacAssign(ins, outs,
                                  MultOshape(a.transpose_a, a.transpose_b, ins[1], ins[2], n))
          ELSE Outcome("false", ins, outs, {})

\* ------------------------------------------ LaTriangMatrixMultOpShape
TriangOshape(transpose, rightside, a, b, n) ==
  [j \in 1..n |->
     IF j - 1 < n - 2 THEN At(a, j - 1)
     ELSE IF rightside
          THEN (IF j - 1 = n - 2 THEN At(b, n - 2)
                ELSE (IF transpose THEN At(a, n - 2) ELSE At(a, n - 1)))
          ELSE (IF j - 1 = n - 2 THEN (IF transpose THEN At(a, n - 1) ELSE At(a, n - 2))
                ELSE At(b, n - 1))]

TriangForward(a, ins, outs) ==
  LET n == ndim(ins[1])
  IN IF At(ins[1], n - 2) # At(ins[1], n - 1) THEN Outcome("ShapeMismatch", ins, outs, {})
     ELSE IF LeadingDiffer(ins[1], ins[2], n) THEN Outcome("false", ins, outs, {})
     ELSE IF a.rightside /\ At(ins[1], n - 2) # At(ins[2], n - 1)
          THEN Outcome("ShapeMismatch", ins, outs, {})
     ELSE IF ~a.rightside /\ At(ins[2], n - 2) # At(ins[1], n - 1)
          THEN Outcome("ShapeMismatch", ins, outs, {})
     ELSE LET tshape == TriangOshape(a.transpose, a.rightside, ins[1], ins[2], n)
              r0 == shape_assign(outs[1], tshape)
              comp == {ForSlot("out", 0, tshape)}
          IN IF ~r0.ok THEN Outcome("ShapeMismatch", ins, outs, comp)
             ELSE Outcome("true", ins, [outs EXCEPT ![1] = r0.shape], comp)

\* The shape inferred for the first (triangular) input from the output o.
TriangIshape1_Row(rightside, o, n) ==
  [j \in 1..n |-> IF j - 1 < n - 2 THEN At(o, j - 1) ELSE At(o, n - 2)]
TriangIshape1(rightside, o, n) ==
  [j \in 1..n |->
     IF j - 1 < n - 2 THEN At(o, j - 1)
     ELSE IF rightside THEN At(o, n - 1) ELSE At(o, n - 2)]
\* The shape inferred for the second input from the output o.
TriangIshape2(rightside, o, n) ==
  [j \in 1..n |->
     IF j - 1 < n - 2 THEN At(o, j - 1)
     ELSE IF rightside
          THEN (IF j - 1 = n - 2 THEN At(o, n - 2) ELSE At(o, n - 1))
          ELSE (IF j - 1 = n - 2 THEN At(o, n - 2) ELSE At(o, n - 1))]

\* SHAPE_ASSIGN_CHECK on (*in_attrs)[0], then on (*in_attrs)[1]; the first
\* assignment stays when the second one throws.
TriangBackward(a, ins, outs) ==
  LET odim == ndim(outs[1])
      tshape1 == TriangIshape1(a.rightside, outs[1], odim)
      tshape2 == TriangIshape2(a.rightside, outs[1], odim)
      comp == {ForSlot("in", 0, tshape1), ForSlot("in", 1, tshape2)}
      r1 == shape_assign(ins[1], tshape1)
  IN IF ~r1.ok THEN Outcome("ShapeMismatch", ins, outs, comp)
     ELSE LET ins1 == [ins EXCEPT ![1] = r1.shape]
              r2 == shape_assign(ins[2], tshape2)
          IN IF ~r2.ok THEN Outcome("ShapeMismatch", ins1, outs, comp)
             ELSE Outcome("true", [ins1 EXCEPT ![2] = r2.shape], outs, comp)

LaTriangMatrixMultOpShape(a, ins, outs) ==
  IF Len(ins) # 2 \/ Len(outs) # 1 THEN Outcome("CheckFailed", ins, outs, {})
  ELSE IF ndim(ins[1]) >= 2 /\ ndim(ins[1]) = ndim(ins[2]) THEN TriangForward(a, ins, outs)
  ELSE IF ndim(outs[1]) >= 2 THEN TriangBackward(a, ins, outs)
  ELSE Outcome("false", ins, outs, {})

\* ------------------------------------------------------ LaReduceShape
ReduceOshape_NoMax(dim, s, n) == [j \in 1..(n - dim) |-> At(s, j - 1)]
ReduceOshape(dim, s, n) ==
  [j \in 1..Max(1, n - dim) |-> IF j - 1 < n - dim THEN At(s, j - 1) ELSE 1]

LaReduceShape(dim, ins, outs) ==
  IF Len(ins) # 1 \/ Len(outs) # 1 THEN Outcome("CheckFailed", ins, outs, {})
  ELSE LET n == ndim(ins[1])
       IN IF n < dim THEN Outcome("false", ins, outs, {})
          ELSE LET tshape == ReduceOshape(dim, ins[1], n)
                   r0 == shape_assign(outs[1], tshape)
                   comp == {ForSlot("out", 0, tshape)}
               IN IF ~r0.ok THEN Outcome("ShapeMismatch", ins, outs, comp)
                  ELSE Outcome("true", ins, [outs EXCEPT ![1] = r0.shape], comp)

\* ------------------------------------------------ the node and its slots
Dims == 0..MaxDim
\* Leading (batch) extents are known extents.
BatchExtents == {1, 2}
Vectors == [1..1 -> Dims]
Matrices(b) ==
  {batch \o m : batch \in [1..b -> BatchExtents], m \in [1..2 -> Dims]}
\* What a slot of a node with b batch dimensions may hold before inference:
\* nothing, a vector, or a (batch of) matrices, known in part or in full.
SlotShapes(b) == {Unknown} \cup Vectors \cup Matrices(b)
FullyKnown(s) == \A i \in 1..Len(s) : s[i] # 0
KnownShapes(b) == {s \in SlotShapes(b) : FullyKnown(s)}
AllShapes == UNION {SlotShapes(b) : b \in 0..MaxBatch}

NoParam == [op |-> "none", transpose_a |-> FALSE, transpose_b |-> FALSE,
            transpose |-> FALSE, rightside |-> FALSE, dim |-> 0]
\* LaMatrixMultParam
MultParams == {[NoParam EXCEPT !.op = "mult", !.transpose_a = ta, !.transpose_b = tb] :
                 ta \in BOOLEAN, tb \in BOOLEAN}
\* LaMatrixMacParam
MacParams == {[NoParam EXCEPT !.op = "mac", !.transpose_a = ta, !.transpose_b = tb] :
                ta \in BOOLEAN, tb \in BOOLEAN}
\* LaTriangMatrixMultParam
TriangParams == {[NoParam EXCEPT !.op = "triang", !.transpose = t, !.rightside = r] :
                   t \in BOOLEAN, r \in BOOLEAN}
\* The template parameter of LaReduceShape
ReduceParams == {[NoParam EXCEPT !.op = "reduce", !.dim = d] : d \in 1..MaxDepth}

\* The driver's variables while only shapes are inferred.
DrvIdle ==
  /\ dir = "none" /\ inum = 0 /\ onum = 0 /\ ninputs = 0
  /\ outputs = <<>> /\ req = <<>> /\ mem = <<>> /\ tspace = <<>>
  /\ pc = "idle" /\ idx = 0 /\ err = "none" /\ X = <<>> /\ Y = <<>> /\ log = <<>>

\* The shape variables while a driver runs.
ShapeIdle ==
  /\ attrs = NoParam /\ in_attrs = <<>> /\ out_attrs = <<>>
  /\ call = "none" /\ ret = "none" /\ pre_in = <<>> /\ pre_out = <<>> /\ computed = {}

\* A node as the inference pass finds it: a matrix multiply and a triangular
\* multiply with any slots, a multiply-accumulate with known or unknown
\* operands, any third operand and an output not inferred yet, a reduction
\* with any input and output.
InitShape ==
  /\ \E b \in 0..MaxBatch :
       \/ /\ attrs \in MultParams
          /\ in_attrs \in [1..2 -> SlotShapes(b)]
          /\ out_attrs \in [1..1 -> SlotShapes(b)]
       \/ /\ attrs \in MacParams
          /\ in_attrs \in {<<a, c, d>> : a \in KnownShapes(b), c \in KnownShapes(b),
                                         d \in SlotShapes(b)}
          /\ out_attrs = <<Unknown>>
       \/ /\ attrs \in TriangParams
          /\ in_attrs \in [1..2 -> SlotShapes(b)]
          /\ out_attrs \in [1..1 -> SlotShapes(b)]
       \/ /\ attrs \in ReduceParams
          /\ in_attrs \in [1..1 -> AllShapes]
          /\ out_attrs \in [1..1 -> AllShapes]
  /\ call = "none"
  /\ ret = "none"
  /\ pre_in = in_attrs
  /\ pre_out = out_attrs
  /\ computed = {}
  /\ DrvIdle

\* One call of an inference function on the node's slots.
Infer(name, o) ==
  /\ call' = name
  /\ ret' = o.ret
  /\ pre_in' = in_attrs
  /\ pre_out' = out_attrs
  /\ in_attrs' = o.in
  /\ out_attrs' = o.out
  /\ computed' = o.computed
  /\ UNCHANGED <<attrs, drvVars>>

InferMultMac ==
  /\ attrs.op \in {"mult", "mac"}
  /\ Infer("LaMatrixMultMacOpShape", LaMatrixMultMacOpShape(attrs, in_attrs, out_attrs))

InferTriang ==
  /\ attrs.op = "triang"
  /\ Infer("LaTriangMatrixMultOpShape", LaTriangMatrixMultOpShape(attrs, in_attrs, out_attrs))

InferReduce ==
  /\ attrs.op = "reduce"
  /\ Infer("LaReduceShape", LaReduceShape(attrs.dim, in_attrs, out_attrs))

NextShape == InferMultMac \/ InferTriang \/ InferReduce

SpecShape == InitShape /\ [][NextShape]_vars

\* =================================================== execution drivers
\* OpReqType
ReqTypes == {"kNullOp", "kWriteTo", "kWriteInplace", "kAddTo"}
\* The type flags: MSHADOW_SGL_DBL_TYPE_SWITCH has a case for the first two.
TypeFlags == {"kFloat32", "kFloat64", "kInt32"}
FloatTypeOrInt(t) == TRUE
FloatType(t) == t \in {"kFloat32", "kFloat64"}

\* The (inum, onum) pairs LaOpCaller is specialised for; the primary
\* template is CHECK(false).
Specialized(i, o) ==
  <<i, o>> \in {<<1, 1>>, <<2, 1>>, <<3, 1>>, <<3, 2>>, <<4, 2>>, <<4, 3>>}

\* The test of both loops of LaOpBackward.
NeedsTemp_NotNull(r) == r # "kNullOp"
NeedsTemp(r) == r = "kAddTo"

\* out += temp over the flattened range.
Accumulate_Assign(out, temp) == temp
Accumulate(out, temp) == [j \in 1..Len(out) |-> out[j] + temp[j]]

\* The numerical policy laop::op, called with the output views in order:
\* it overwrites the buffer behind each view it is given with its result.
KernelWrites(m, blobs, n) ==
  [a \in DOMAIN m |->
     IF \E i \in 1..n : blobs[i].dptr_ = a
     THEN Y[CHOOSE i \in 1..n : blobs[i].dptr_ = a]
     ELSE m[a]]

\* get_space_typed(Shape1(n)): a buffer of n elements from the temporary
\* pool, at an address of its own, with whatever it held (-1).
FreshAddr(m) == Len(m) + 1
get_space_typed(m, n) == Append(m, [j \in 1..n |-> 0 - 1])

\* Contents before the invocation and kernel results: one pattern per
\* buffer, different for every buffer and element.
XContent(x0, i, n) == [j \in 1..n |-> x0 + 10 * i + j]
YContent(y0, i, n) == [j \in 1..n |-> 100 * (y0 + 1) + 10 * i + j]

\* The sizes of the vectors a driver is handed: as declared, or off by one.
ArityCases(i, o) ==
  {<<i, o>>, <<i + 1, o>>}
    \cup {<<i, o2>> : o2 \in {o - 1, o + 1} \cap (1..MaxOnum)}

InitDrv ==
  /\ dir \in {"forward", "backward"}
  /\ inum \in 1..MaxInum
  /\ onum \in 1..MaxOnum
  /\ \E c \in ArityCases(inum, onum), t \in TypeFlags,
        x0 \in 0..MaxVal, y0 \in 0..MaxVal :
       \E sizes \in [1..c[2] -> 1..MaxSize] :
         /\ ninputs = c[1]
         /\ outputs = [i \in 1..c[2] |-> [dptr_ |-> i, size |-> sizes[i], type_flag_ |-> t]]
         /\ X = [i \in 1..c[2] |-> XContent(x0, i, sizes[i])]
         /\ Y = [i \in 1..c[2] |-> YContent(y0, i, sizes[i])]
  /\ req \in [1..Len(outputs) -> ReqTypes]
  /\ mem = X
  /\ tspace = <<>>
  /\ pc = "start"
  /\ idx = 0
  /\ err = "none"
  /\ log = <<>>
  /\ ShapeIdle

Fail(e) ==
  /\ pc' = "failed"
  /\ err' = e

\* LaOpForward, start to finish: the two CHECK_EQ, the type switch, the
\* caller on the real outputs.
LaOpForward ==
  /\ dir = "forward"
  /\ pc = "start"
  /\ IF ninputs # inum \/ Len(outputs) # onum
     THEN /\ Fail("ArityContractViolation")
          /\ log' = <<"validate">>
          /\ UNCHANGED mem
     ELSE IF ~FloatType(outputs[1].type_flag_)
     THEN /\ Fail("UnsupportedElementType")
          /\ log' = <<"validate", "select">>
          /\ UNCHANGED mem
     ELSE IF ~Specialized(inum, onum)
     THEN /\ Fail("NoSpecializedCaller")
          /\ log' = <<"validate", "select">>
          /\ UNCHANGED mem
     ELSE /\ pc' = "done"
          /\ mem' = KernelWrites(mem, outputs, onum)
          /\ log' = <<"validate", "select", "kernel">>
          /\ UNCHANGED err
  /\ UNCHANGED <<dir, inum, onum, ninputs, outputs, req, tspace, idx, X, Y, shapeVars>>

\* LaOpBackward: CHECK_EQ(inputs.size(), inum); CHECK_EQ(outputs.size(), onum)
BwdValidate ==
  /\ dir = "backward"
  /\ pc = "start"
  /\ log' = Append(log, "validate")
  /\ IF ninputs # inum \/ Len(outputs) # onum
     THEN Fail("ArityContractViolation")
     ELSE pc' = "select" /\ UNCHANGED err
  /\ UNCHANGED <<dir, inum, onum, ninputs, outputs, req, mem, tspace, idx, X, Y, shapeVars>>

\* MSHADOW_SGL_DBL_TYPE_SWITCH(outputs[0].type_flag_, ...), and in its body
\* std::vector<TBlob> tspace(outputs)
BwdSelectType ==
  /\ pc = "select"
  /\ log' = Append(log, "select")
  /\ IF FloatType(outputs[1].type_flag_)
     THEN /\ pc' = "alloc"
          /\ tspace' = outputs
          /\ idx' = 0
          /\ UNCHANGED err
     ELSE /\ Fail("UnsupportedElementType")
          /\ UNCHANGED <<tspace, idx>>
  /\ UNCHANGED <<dir, inum, onum, ninputs, outputs, req, mem, X, Y, shapeVars>>

\* One round of the first loop: a temporary for output idx if it accumulates.
BwdAllocStep ==
  /\ pc = "alloc"
  /\ idx < onum
  /\ IF NeedsTemp(req[idx + 1])
     THEN /\ mem' = get_space_typed(mem, outputs[idx + 1].size)
          /\ tspace' = [tspace EXCEPT ![idx + 1].dptr_ = FreshAddr(mem)]
          /\ log' = Append(log, "acquire")
     ELSE UNCHANGED <<mem, tspace, log>>
  /\ idx' = idx + 1
  /\ pc' = IF idx + 1 < onum THEN "alloc" ELSE "call"
  /\ UNCHANGED <<dir, inum, onum, ninputs, outputs, req, err, X, Y, shapeVars>>

\* LaOpCaller<...>::op(inputs, tspace, attrs, s)
BwdCall ==
  /\ pc = "call"
  /\ IF Specialized(inum, onum)
     THEN /\ mem' = KernelWrites(mem, tspace, onum)
          /\ log' = Append(log, "kernel")
          /\ pc' = "accum"
          /\ idx' = 0
          /\ UNCHANGED err
     ELSE /\ Fail("NoSpecializedCaller")
          /\ UNCHANGED <<mem, log, idx>>
  /\ UNCHANGED <<dir, inum, onum, ninputs, outputs, req, tspace, X, Y, shapeVars>>

\* One round of the second loop: out += tspace[idx] if output idx accumulates.
BwdAccumStep ==
  /\ pc = "accum"
  /\ idx < onum
  /\ IF NeedsTemp(req[idx + 1])
     THEN /\ mem' = [mem EXCEPT ![outputs[idx + 1].dptr_] =
                       Accumulate(mem[outputs[idx + 1].dptr_], mem[tspace[idx + 1].dptr_])]
          /\ log' = Append(log, "accumulate")
     ELSE UNCHANGED <<mem, log>>
  /\ idx' = idx + 1
  /\ pc' = IF idx + 1 < onum THEN "accum" ELSE "done"
  /\ UNCHANGED <<dir, inum, onum, ninputs, outputs, req, tspace, err, X, Y, shapeVars>>

NextDrv ==
  LaOpForward \/ BwdValidate \/ BwdSelectType \/ BwdAllocStep \/ BwdCall \/ BwdAccumStep

SpecDrv == InitDrv /\ [][NextDrv]_vars

\* ================================================================ claims
\* The vocabulary of the claims, stated on shapes as sequences.
Last(s) == s[Len(s)]
SecondLast(s) == s[Len(s) - 1]
Batch(s) == SubSeq(s, 1, Len(s) - 2)
\* Slot y does not contradict shape x: unknown, or of x's rank with no known
\* dimension different from a known dimension of x.
Agrees(y, x) ==
  \/ Len(y) = 0
  \/ /\ Len(y) = Len(x)
     /\ \A i \in 1..Len(y) : y[i] = 0 \/ x[i] = 0 \/ y[i] = x[i]
Disagrees(y, x) ==
  /\ Len(y) > 0
  /\ \/ Len(y) # Len(x)
     \/ \E i \in 1..Len(y) : y[i] # 0 /\ x[i] # 0 /\ y[i] # x[i]
\* Slot old became new only by filling in what was unknown.
OnlyFilled(old, new) ==
  Len(old) > 0 => /\ Len(new) = Len(old)
                  /\ \A i \in 1..Len(old) : old[i] # 0 => new[i] = old[i]
SlotsUnchanged == in_attrs = pre_in /\ out_attrs = pre_out

IsMultMacCall == call = "LaMatrixMultMacOpShape"
EqualRankMatrices == Len(pre_in[1]) >= 2 /\ Len(pre_in[1]) = Len(pre_in[2])
SameBatch == Batch(pre_in[1]) = Batch(pre_in[2])
\* Rows and columns of the possibly transposed operands, and the dimensions
\* a matrix product contracts.
RowsLeft == IF attrs.transpose_a THEN Last(pre_in[1]) ELSE SecondLast(pre_in[1])
ColsRight == IF attrs.transpose_b THEN SecondLast(pre_in[2]) ELSE Last(pre_in[2])
ContractLeft == IF attrs.transpose_a THEN SecondLast(pre_in[1]) ELSE Last(pre_in[1])
ContractRight == IF attrs.transpose_b THEN Last(pre_in[2]) ELSE SecondLast(pre_in[2])
ProductShape == Batch(pre_in[1]) \o <<RowsLeft, ColsRight>>

\* ---------------------------------------------------------------- C2
C2_Pre ==
  /\ IsMultMacCall
  /\ EqualRankMatrices
  /\ SameBatch
  /\ ContractLeft = ContractRight
  /\ pre_out[1] = Unknown
ThirdAgrees == Len(pre_in) = 2 \/ Agrees(pre_in[3], ProductShape)

\* C2 as stated: operands of equal rank >= 2 with equal leading dimensions
\* and compatible contraction dimensions and an unknown output: the call
\* resolves and sets the output to the batch followed by (rows of the
\* possibly transposed left, columns of the possibly transposed right).
C2_Original == C2_Pre => ret = "true" /\ out_attrs[1] = ProductShape

\* C2 amended: the same, provided that the third operand of a
\* multiply-accumulate is unknown or agrees with that shape.
C2_ForwardProduct == C2_Pre /\ ThirdAgrees => ret = "true" /\ out_attrs[1] = ProductShape

C2_Witness ==
  /\ C2_Pre /\ ThirdAgrees
  /\ Len(pre_in[1]) = 3
  /\ attrs.transpose_a /\ ~attrs.transpose_b
  /\ RowsLeft # ContractLeft
  /\ ret = "true" /\ out_attrs[1] = ProductShape

\* ---------------------------------------------------------------- C3
\* The dimensions C3 says are compared.
C3_StatedLeft == IF attrs.transpose_a THEN Last(pre_in[1]) ELSE SecondLast(pre_in[1])
C3_StatedRight == IF attrs.transpose_b THEN SecondLast(pre_in[2]) ELSE Last(pre_in[2])

\* C3 as stated: operands of equal rank >= 2; the left operand's
\* second-to-last dimension (last if transposed) is compared with the right
\* operand's last dimension (second-to-last if transposed), and whenever the
\* two differ the call raises ShapeMismatch and never declines.
C3_Original ==
  IsMultMacCall /\ EqualRankMatrices /\ C3_StatedLeft # C3_StatedRight
    => ret = "ShapeMismatch"

\* C3 amended: the left operand's last dimension (second-to-last if
\* transposed) is compared with the right operand's second-to-last dimension
\* (last if transposed); whenever the leading dimensions agree pairwise and
\* these two differ the call raises ShapeMismatch and never declines.
C3_InnerMismatchRaises ==
  IsMultMacCall /\ EqualRankMatrices /\ SameBatch /\ ContractLeft # ContractRight
    => ret = "ShapeMismatch"

C3_Witness ==
  /\ IsMultMacCall /\ EqualRankMatrices /\ SameBatch
  /\ Len(pre_in[1]) = 3
  /\ ContractLeft # ContractRight
  /\ C3_StatedLeft = C3_StatedRight
  /\ ret = "ShapeMismatch"

\* ---------------------------------------------------------------- C4
C4_Forward ==
  /\ call = "LaTriangMatrixMultOpShape"
  /\ Len(pre_in[1]) >= 2 /\ Len(pre_in[1]) = Len(pre_in[2])
  /\ FullyKnown(pre_in[1]) /\ FullyKnown(pre_in[2])
  /\ ret = "true"

\* C4: when forward triangular inference on fully known inputs resolved to
\* the output O, the function run on unknown inputs and the output O takes
\* the backward branch and fills the inputs with exactly the original ones.
C4_RoundTrip ==
  C4_Forward =>
    LET back == LaTriangMatrixMultOpShape(attrs, <<Unknown, Unknown>>, out_attrs)
    IN /\ back.ret = "true"
       /\ back.in = pre_in
       /\ back.out = out_attrs
       /\ {c.arr : c \in back.computed} = {"in"}

C4_Witness ==
  /\ C4_Forward
  /\ Len(pre_in[1]) = 3
  /\ attrs.rightside /\ attrs.transpose
  /\ SecondLast(pre_in[2]) # Last(pre_in[2])
  /\ LaTriangMatrixMultOpShape(attrs, <<Unknown, Unknown>>, out_attrs).in = pre_in

\* ---------------------------------------------------------------- C5
SlotBefore(c) == IF c.arr = "in" THEN pre_in[c.idx + 1] ELSE pre_out[c.idx + 1]

\* C5: after any call of an inference function, every slot differs from
\* what it was before the call only in dimensions that were unknown, and if
\* a shape the call computed disagrees with a known dimension of the slot it
\* is for, the call raised ShapeMismatch.
C5_CheckedAssignment ==
  call # "none" =>
    /\ Len(in_attrs) = Len(pre_in)
    /\ Len(out_attrs) = Len(pre_out)
    /\ \A i \in 1..Len(pre_in) : OnlyFilled(pre_in[i], in_attrs[i])
    /\ \A i \in 1..Len(pre_out) : OnlyFilled(pre_out[i], out_attrs[i])
    /\ \A c \in computed : Disagrees(SlotBefore(c), c.shape) => ret = "ShapeMismatch"

C5_Witness ==
  /\ IsMultMacCall
  /\ Len(pre_in) = 3
  /\ \E c \in computed :
       /\ c.arr = "in" /\ c.idx = 2
       /\ Len(pre_in[3]) = Len(c.shape)
       /\ Disagrees(pre_in[3], c.shape)
  /\ ret = "ShapeMismatch"
  /\ in_attrs[3] = pre_in[3]

\* ---------------------------------------------------------------- C6
\* C6: operands of equal rank >= 2 that differ in a leading dimension: the
\* call declines, whatever the trailing dimensions and the flags, and
\* leaves every slot as it was.
C6_BatchMismatchDeclines ==
  IsMultMacCall /\ EqualRankMatrices /\ ~SameBatch => ret = "false" /\ SlotsUnchanged

C6_Witness ==
  /\ IsMultMacCall /\ EqualRankMatrices /\ ~SameBatch
  /\ ContractLeft # ContractRight
  /\ attrs.transpose_b
  /\ ret = "false" /\ SlotsUnchanged

\* ---------------------------------------------------------------- C7
ReduceExpected ==
  IF Len(pre_in[1]) = attrs.dim THEN <<1>>
  ELSE SubSeq(pre_in[1], 1, Len(pre_in[1]) - attrs.dim)

\* C7: LaReduceShape<dim> on an input of rank n declines and changes
\* nothing if n < dim; otherwise the shape it infers for the output is [1]
\* if n = dim and the first n - dim dimensions of the input if n > dim, and
\* an unknown output slot is set to it.
C7_ReduceShape ==
  call = "LaReduceShape" =>
    IF Len(pre_in[1]) < attrs.dim
    THEN ret = "false" /\ SlotsUnchanged
    ELSE /\ computed = {ForSlot("out", 0, ReduceExpected)}
         /\ ReduceExpected # <<>>
         /\ pre_out[1] = Unknown => ret = "true" /\ out_attrs[1] = ReduceExpected

C7_Witness ==
  /\ call = "LaReduceShape"
  /\ Len(pre_in[1]) = attrs.dim
  /\ attrs.dim = 2
  /\ pre_out[1] = Unknown
  /\ ret = "true" /\ out_attrs[1] = <<1>>

\* ---------------------------------------------------------------- C9
\* C9 as stated: a call that raised ShapeMismatch left every slot as it
\* was, and a driver invocation that failed on the arity or on the element
\* type wrote no output buffer and invoked no kernel.
C9_NoPartialResults ==
  /\ ret = "ShapeMismatch" => SlotsUnchanged
  /\ pc = "failed" /\ err \in {"ArityContractViolation", "UnsupportedElementType"}
       => mem = X /\ \A p \in 1..Len(log) : log[p] # "kernel"

\* ------------------------------------------------------- C1, C8, C10
BackwardDone == dir = "backward" /\ pc = "done"
Sum(x, y) == [j \in 1..Len(x) |-> x[j] + y[j]]
Accumulating == {i \in 1..Len(req) : req[i] = "kAddTo"}
Count(e) == Cardinality({p \in 1..Len(log) : log[p] = e})

C8_OthersHoldKernelResult ==
  BackwardDone =>
    /\ \A i \in (1..onum) \ Accumulating :
         /\ tspace[i] = outputs[i]
         /\ mem[outputs[i].dptr_] = Y[i]
    /\ Count("accumulate") = Cardinality(Accumulating)

C8_Witness ==
  /\ BackwardDone
  /\ onum = 3
  /\ req = <<"kWriteTo", "kAddTo", "kNullOp">>
  /\ mem[outputs[1].dptr_] = Y[1] /\ mem[outputs[3].dptr_] = Y[3]
  /\ X[1] # Y[1]

Order(e) ==
  CASE e = "validate" -> 0
    [] e = "select" -> 1
    [] e = "acquire" -> 2
    [] e = "kernel" -> 3
    [] e = "accumulate" -> 4
ChecksPass ==
  /\ ninputs = inum /\ Len(outputs) = onum
  /\ outputs[1].type_flag_ \in {"kFloat32", "kFloat64"}

\* C10: in a backward invocation the side effects come in the order
\* validate, select, acquisitions, one kernel invocation, accumulate steps;
\* nothing is acquired or accumulated on the wrong side of the kernel
\* invocation, and nothing but the checks happens when a check fails.
C10_StepOrder ==
  dir = "backward" =>
    /\ \A p, q \in 1..Len(log) : p < q => Order(log[p]) <= Order(log[q])
    /\ Count("validate") <= 1 /\ Count("select") <= 1 /\ Count("kernel") <= 1
    /\ Count("select") = 1 => Count("validate") = 1
    /\ Count("acquire") + Count("kernel") > 0 => Count("select") = 1
    /\ Count("accumulate") > 0 => Count("kernel") = 1
    /\ pc = "done" => /\ Count("kernel") = 1
                      /\ Count("acquire") = Cardinality(Accumulating)
                      /\ Count("accumulate") = Cardinality(Accumulating)
    /\ ~ChecksPass => Count("acquire") + Count("kernel") + Count("accumulate") = 0

C10_Witness ==
  /\ BackwardDone
  /\ log = <<"validate", "select", "acquire", "acquire", "kernel", "accumulate", "accumulate">>
====
